---- MODULE Spec2Model ----
(***************************************************************************)
(* One call of run_bb84 (src/src/bb84.py) as a state machine (Spec), the   *)
(* same call on the 68-position end-to-end scenario (ScenarioSpec), the    *)
(* call made in a child process by run_bb84_json of src/src/run_batch.py   *)
(* (BatchSpec) and the success rates of analyze_csv of                     *)
(* src/src/analyze_results.py (AnalysisSpec).                              *)
(*                                                                         *)
(* Lists are TLA+ sequences, so position i of the model is index i-1 of    *)
(* the Python lists, and index i of range(2n) is i+1 here.  Bases are 0    *)
(* (Z) and 1 (X) as in the code.  Floats are kept as exact fractions       *)
(* <<numerator, denominator>>; delta is held in tenths.                    *)
(***************************************************************************)
EXTENDS Integers, Sequences, FiniteSets, TLC

VARIABLES
    n, delta, tolerance, avgErrors, isEvePresent,  \* arguments of run_bb84
    total,                                         \* line 109
    data_bits, alice_bases, bob_bases, eve_bases,  \* lines 111-116 (eve_bases is <<>> for None)
    qc,                                            \* the circuit: a sequence of operations
    counts,                                        \* what the backend handed back
    measured_bits,                                 \* line 139
    sifted_positions, kept_pos,                    \* lines 142, 151
    check_indices, key_indices,                    \* lines 157, 158
    result,                                        \* the returned dict
    pc,                                            \* phase of the run
    raised,                                        \* the exception that ended the run
    randomDraws,                                   \* random values drawn so far
    simCalls,                                      \* calls of the backend so far
    proc,                                          \* the process around the run, if any
    analysis                                       \* analyze_csv at work on a results file

vars == <<n, delta, tolerance, avgErrors, isEvePresent, total, data_bits,
          alice_bases, bob_bases, eve_bases, qc, counts, measured_bits,
          sifted_positions, kept_pos, check_indices, key_indices, result,
          pc, raised, randomDraws, simCalls, proc, analysis>>

(***************************************************************************)
(* Bounds of the exploration.                                              *)
(***************************************************************************)
\* n ranges over -1..MaxN (the code accepts any int).
MaxN == 2
\* Only calls whose ensemble has at most MaxTotal positions are explored.
MaxTotal == 4
\* Bob's basis differs from Alice's on at most MaxMismatch positions.
MaxMismatch == 1
\* Only the first MaxDisturbed positions are disturbed: beyond them Eve draws
\* Alice's basis and the error masks draw 0.
MaxDisturbed == 1

NValues == (-1)..MaxN
\* delta in tenths: -2.0 and -1.5 (oversampling factors 2 and 2.5)
DeltaValues == {-20, -15}
\* tolerance as a fraction <<numerator, denominator>>: 0 and 1/2
ToleranceValues == {<<0, 1>>, <<1, 2>>}
\* tolerances outside [0, 1]
BadToleranceValues == {<<3, 2>>, <<-1, 2>>}
AvgErrorsValues == {0, 1}

Bit == {0, 1}
BitSeqs(L) == [1..L -> Bit]

Max(a, b) == IF a >= b THEN a ELSE b
Min(a, b) == IF a <= b THEN a ELSE b

\* math.ceil(a / b) for b > 0
Ceil(a, b) == -((-a) \div b)

\* variant: the ensemble size is rounded down
TotalFloor(nn, d) == ((40 + d) * nn) \div 10

\* line 109: total = math.ceil((4.0 + float(delta)) * n), delta in tenths
Total(nn, d) == Ceil((40 + d) * nn, 10)

\* len(range(k))
RangeLen(k) == Max(k, 0)

\* The sequences of length L that are free on the first MaxDisturbed
\* positions (values in S) and equal to fill beyond them.
Disturbed(L, S, fill) ==
    {[i \in 1..L |-> IF i <= MaxDisturbed THEN x[i] ELSE fill[i]] :
        x \in [1..Min(L, MaxDisturbed) -> S]}

Zeros(L) == [i \in 1..L |-> 0]

\* the number of positions on which two sequences of one length differ
Differences(s, t) == Cardinality({i \in 1..Len(s) : s[i] # t[i]})

RECURSIVE Reverse(_)
\* s[::-1]
Reverse(s) == IF s = <<>> THEN <<>> ELSE Append(Reverse(Tail(s)), Head(s))

NoResult == [status |-> "none"]

\* no output on stdout
NoOutput == [format |-> "none"]

\* The process around a run: who started it, where it stands, the options
\* on its command line, the text given to --errors ("int" for str(5),
\* "float" for str(5.0)), its exit status (-1 while it runs), its stdout
\* and what run_bb84_json returned.
Process(caller, phase, flags, errorsText, code, stdout, returned) ==
    [caller |-> caller, phase |-> phase, flags |-> flags,
     errorsText |-> errorsText, code |-> code, stdout |-> stdout,
     returned |-> returned]

\* no results file is being analysed
NoAnalysis == [phase |-> "none"]

\* run_bb84 called as a function, without a process of its own
DirectCall == Process("run_bb84", "call", {}, "int", -1, NoOutput, NoResult)

\* The arguments of the call.  A call with an out-of-range tolerance is
\* explored for the smallest key length, without Eve and without noise.
Arguments ==
    \/ /\ n \in NValues
       /\ delta \in DeltaValues
       /\ tolerance \in ToleranceValues
       /\ avgErrors \in AvgErrorsValues
       /\ isEvePresent \in BOOLEAN
    \/ /\ n = 1
       /\ delta \in DeltaValues
       /\ tolerance \in BadToleranceValues
       /\ avgErrors = 0
       /\ isEvePresent = FALSE

Init ==
    /\ Arguments
    /\ Total(n, delta) <= MaxTotal
    /\ total = 0
    /\ data_bits = <<>>
    /\ alice_bases = <<>>
    /\ bob_bases = <<>>
    /\ eve_bases = <<>>
    /\ qc = <<>>
    /\ counts = {}
    /\ measured_bits = <<>>
    /\ sifted_positions = <<>>
    /\ kept_pos = <<>>
    /\ check_indices = <<>>
    /\ key_indices = <<>>
    /\ result = NoResult
    /\ pc = "Preparing"
    /\ raised = "none"
    /\ randomDraws = 0
    /\ simCalls = 0
    /\ proc = DirectCall
    /\ analysis = NoAnalysis

(***************************************************************************)
(* Circuit operations.  by names the function that appended the operation. *)
(***************************************************************************)
Op(g, q, by) == [g |-> g, q |-> q, by |-> by]
Barrier(label) == [g |-> "barrier", q |-> 0, by |-> label]

\* prepare_alice_circuit, the gates of qubit i
AliceGates(bit, b, i) ==
    IF b = 0
    THEN (IF bit = 1 THEN <<Op("x", i, "Alice")>> ELSE <<>>)
    ELSE (IF bit = 0
          THEN <<Op("h", i, "Alice")>>
          ELSE <<Op("x", i, "Alice"), Op("h", i, "Alice")>>)

RECURSIVE AliceOps(_, _, _)
\* prepare_alice_circuit, the loop over qubits 1..k
AliceOps(data, bases, k) ==
    IF k = 0 THEN <<>>
    ELSE AliceOps(data, bases, k - 1) \o AliceGates(data[k], bases[k], k)

prepare_alice_circuit(data, bases) == AliceOps(data, bases, Len(data))

\* lines 109-119: the ensemble is drawn and Alice's circuit is built
Prepare ==
    /\ pc = "Preparing"
    /\ total' = Total(n, delta)
    /\ data_bits' \in BitSeqs(RangeLen(total'))
    /\ alice_bases' \in BitSeqs(RangeLen(total'))
    /\ bob_bases' \in BitSeqs(RangeLen(total'))
    /\ Differences(alice_bases', bob_bases') <= MaxMismatch
    /\ IF isEvePresent
       THEN eve_bases' \in Disturbed(RangeLen(total'), Bit, alice_bases')
       ELSE eve_bases' = <<>>
    /\ randomDraws' = randomDraws
                      + (IF isEvePresent THEN 4 ELSE 3) * RangeLen(total')
    /\ qc' = prepare_alice_circuit(data_bits', alice_bases')
    /\ pc' = "Perturbing"
    /\ UNCHANGED <<analysis, proc, n, delta, tolerance, avgErrors, isEvePresent, counts,
                   measured_bits, sifted_positions, kept_pos, check_indices,
                   key_indices, result, raised, simCalls>>

\* variant: Eve rotates the qubit whatever her basis
EveGatesAlways(eve, alice, flip, i) ==
    <<Op("h", i, "Eve")>>
    \o (IF flip = 1
        THEN <<Op(IF eve = 0 THEN "x" ELSE "z", i, "Eve")>>
        ELSE <<>>)

\* eve_interference, the gates of qubit i; flip is the value of randint(0,1)
EveGates(eve, alice, flip, i) ==
    IF eve # alice
    THEN <<Op("h", i, "Eve")>>
         \o (IF flip = 1
             THEN <<Op(IF eve = 0 THEN "x" ELSE "z", i, "Eve")>>
             ELSE <<>>)
    ELSE <<>>

RECURSIVE EveOps(_, _, _, _)
EveOps(abases, ebases, flips, k) ==
    IF k = 0 THEN <<>>
    ELSE EveOps(abases, ebases, flips, k - 1)
         \o EveGates(ebases[k], abases[k], flips[k], k)

eve_interference(circ, abases, ebases, flips) ==
    circ \o <<Barrier("Eve")>> \o EveOps(abases, ebases, flips, Len(ebases))

\* The values randint(0,1) takes in eve_interference: it is called only
\* where Eve's basis differs from Alice's (0 stands for "not called").
EveFlips(abases, ebases) ==
    {f \in Disturbed(Len(ebases), Bit, Zeros(Len(ebases))) :
        \A i \in 1..Len(ebases) : ebases[i] = abases[i] => f[i] = 0}

\* The values 1 if random.random() < avg / (2 * tot) else 0 can take, tot > 0:
\* random() lies in [0, 1).
MaskBits(avg, tot) ==
    {b \in Bit : (b = 1 => avg > 0) /\ (b = 0 => avg < 2 * tot)}

\* random_err_mask(L, percentage) with percentage = (avg / tot) / 2
random_err_mask(L, avg, tot) ==
    Disturbed(RangeLen(L), MaskBits(avg, tot), Zeros(RangeLen(L)))

RECURSIVE FlipOps(_, _, _, _)
\* the loop of add_random_bit_flip_errors / add_random_phase_flip_errors
FlipOps(mask, g, by, k) ==
    IF k = 0 THEN <<>>
    ELSE FlipOps(mask, g, by, k - 1)
         \o (IF mask[k] = 1 THEN <<Op(g, k, by)>> ELSE <<>>)

add_random_bit_flip_errors(circ, mask) ==
    circ \o <<Barrier("BitFlips")>> \o FlipOps(mask, "x", "BitFlips", Len(mask))

\* variant: the phase-flip loop applies x
add_random_phase_flip_errors_x(circ, mask) ==
    circ \o <<Barrier("PhaseFlips")>> \o FlipOps(mask, "x", "PhaseFlips", Len(mask))

add_random_phase_flip_errors(circ, mask) ==
    circ \o <<Barrier("PhaseFlips")>> \o FlipOps(mask, "z", "PhaseFlips", Len(mask))

add_random_errors(circ, bitMask, phaseMask) ==
    add_random_phase_flip_errors(add_random_bit_flip_errors(circ, bitMask), phaseMask)

\* variant: the noise is injected before Eve interferes
PerturbedCircuitNoiseFirst(circ, eve, abases, ebases, flips, bitMask, phaseMask) ==
    LET noisy == add_random_errors(circ, bitMask, phaseMask)
    IN  IF eve THEN eve_interference(noisy, abases, ebases, flips) ELSE noisy

\* lines 120-122 as one function of the circuit and of the random draws
PerturbedCircuit(circ, eve, abases, ebases, flips, bitMask, phaseMask) ==
    add_random_errors(
        IF eve THEN eve_interference(circ, abases, ebases, flips) ELSE circ,
        bitMask, phaseMask)

\* lines 120-122: Eve's interference, then the channel noise
Perturb ==
    /\ pc = "Perturbing"
    /\ \/ /\ total # 0
          /\ \E flips \in (IF isEvePresent THEN EveFlips(alice_bases, eve_bases)
                                           ELSE {<<>>}),
                bitMask \in random_err_mask(total, avgErrors, total),
                phaseMask \in random_err_mask(total, avgErrors, total) :
                qc' = PerturbedCircuit(qc, isEvePresent, alice_bases,
                                        eve_bases, flips, bitMask, phaseMask)
          /\ randomDraws' = randomDraws
                            + (IF isEvePresent THEN Differences(eve_bases, alice_bases) ELSE 0)
                            + 2 * RangeLen(total)
          /\ pc' = "Measuring"
          /\ UNCHANGED raised
       \/ \* float(avgErrors)/total divides by zero on line 122
          /\ total = 0
          /\ qc' = (IF isEvePresent
                    THEN eve_interference(qc, alice_bases, eve_bases, <<>>)
                    ELSE qc)
          /\ pc' = "Crashed"
          /\ raised' = "ZeroDivisionError"
          /\ UNCHANGED randomDraws
    /\ UNCHANGED <<analysis, proc, n, delta, tolerance, avgErrors, isEvePresent, total,
                   data_bits, alice_bases, bob_bases, eve_bases, counts,
                   measured_bits, sifted_positions, kept_pos, check_indices,
                   key_indices, result, simCalls>>

RECURSIVE BobOps(_, _)
\* measure_bob_in_bases, the loop over qubits 1..k
BobOps(bbases, k) ==
    IF k = 0 THEN <<>>
    ELSE BobOps(bbases, k - 1)
         \o (IF bbases[k] = 1 THEN <<Op("h", k, "Bob")>> ELSE <<>>)
         \o <<Op("measure", k, "Bob")>>

measure_bob_in_bases(circ, bbases) ==
    circ \o <<Barrier("Bob")>> \o BobOps(bbases, Len(bbases))

(***************************************************************************)
(* The backend.  No gate of the circuit couples two qubits, so every qubit *)
(* stays in one of |0>, |1>, |+>, |-> (up to a global phase).              *)
(***************************************************************************)
GateOn(g, s) ==
    CASE g = "x" -> (CASE s = "0" -> "1" [] s = "1" -> "0" [] OTHER -> s)
      [] g = "z" -> (CASE s = "+" -> "-" [] s = "-" -> "+" [] OTHER -> s)
      [] g = "h" -> (CASE s = "0" -> "+" [] s = "+" -> "0"
                       [] s = "1" -> "-" [] s = "-" -> "1")
      [] OTHER -> s

RECURSIVE StateAfter(_, _, _)
\* the state of qubit q after the first k operations of circ, from |0>
StateAfter(circ, q, k) ==
    IF k = 0 THEN "0"
    ELSE IF circ[k].q = q /\ circ[k].g # "measure"
         THEN GateOn(circ[k].g, StateAfter(circ, q, k - 1))
         ELSE StateAfter(circ, q, k - 1)

\* the operations of circ on qubit q, in order
OpsOn(circ, q) ==
    LET On(op) == op.q = q
    IN  SelectSeq(circ, On)

\* the state of qubit q when it is measured
QubitState(circ, q) ==
    LET ops == OpsOn(circ, q)
    IN  StateAfter(ops, q, Len(ops))

\* the values a single-shot measurement in the computational basis can give
MeasureZ(s) == CASE s = "0" -> {0} [] s = "1" -> {1} [] OTHER -> {0, 1}

\* the classical bits one shot of circ over L qubits can leave, by qubit
Shots(circ, L) ==
    LET values == [q \in 1..L |-> MeasureZ(QubitState(circ, q))]
    IN  {f \in BitSeqs(L) : \A q \in 1..L : f[q] \in values[q]}

BitChar(b) == IF b = 0 THEN "0" ELSE "1"

\* the key of counts for the classical bits f: the highest index comes first
CountsKey(f) == Reverse([i \in 1..Len(f) |-> BitChar(f[i])])

\* a key that is no bit string
MalformedKey == <<"?">>

\* What result.get_counts() can be after one shot: one key for the shot, or,
\* when the backend fails, no key at all, a key that is no bit string, or
\* the empty key.
BackendCounts(circ, L) ==
    {{CountsKey(f)} : f \in Shots(circ, L)}
    \cup {{}, {MalformedKey}, {<<>>}}

\* counts holds a bit string with one character per qubit
Usable(c, L) ==
    \E k \in c : Len(k) = RangeLen(L) /\ \A i \in 1..Len(k) : k[i] \in {"0", "1"}

\* int(bit)
IntOf(c) == IF c = "0" THEN 0 ELSE 1

\* line 139: [int(bit) for bit in measured_str[::-1]]
Decode(measured_str) ==
    [i \in 1..Len(measured_str) |-> IntOf(Reverse(measured_str)[i])]

\* lines 123-139: Bob's rotation and measurement, the single shot, decoding
Measure ==
    /\ pc = "Measuring"
    /\ qc' = measure_bob_in_bases(qc, bob_bases)
    /\ simCalls' = simCalls + 1
    /\ counts' \in BackendCounts(qc', RangeLen(total))
    /\ \/ \* next(iter(counts)) on an empty dict
          /\ counts' = {}
          /\ pc' = "Crashed"
          /\ raised' = "StopIteration"
          /\ UNCHANGED measured_bits
       \/ \* int(bit) on a character that is no digit
          /\ \E measured_str \in counts' :
                \E i \in 1..Len(measured_str) : measured_str[i] \notin {"0", "1"}
          /\ pc' = "Crashed"
          /\ raised' = "ValueError: int"
          /\ UNCHANGED measured_bits
       \/ /\ \E measured_str \in counts' :
                /\ \A i \in 1..Len(measured_str) : measured_str[i] \in {"0", "1"}
                /\ measured_bits' = Decode(measured_str)
          /\ pc' = "Sifting"
          /\ UNCHANGED raised
    /\ UNCHANGED <<analysis, proc, n, delta, tolerance, avgErrors, isEvePresent, total,
                   data_bits, alice_bases, bob_bases, eve_bases,
                   sifted_positions, kept_pos, check_indices, key_indices,
                   result, randomDraws>>

(***************************************************************************)
(* Sifting, the check/key partition, the QBER verdict and the key.         *)
(***************************************************************************)
\* list(range(L)), as positions 1..L
IndexSeq(L) == [i \in 1..RangeLen(L) |-> i]

\* the elements of a sequence
Range(s) == {s[i] : i \in 1..Len(s)}

\* line 142: the positions where the bases matched, in increasing order
SiftedPositions(tot, abases, bbases) ==
    LET Matched(i) == abases[i] = bbases[i]
    IN  SelectSeq(IndexSeq(tot), Matched)

\* variant: the test of line 143 written with <=
NotEnoughSiftedInclusive(siftedLen, nn) == siftedLen <= 2 * nn

\* line 143: len(sifted_positions) < 2*n
NotEnoughSifted(siftedLen, nn) == siftedLen < 2 * nn

\* s[:k]
Slice(s, k) ==
    IF k >= 0 THEN SubSeq(s, 1, Min(k, Len(s)))
    ELSE SubSeq(s, 1, Max(Len(s) + k, 0))

\* variant: the last 2n sifted positions are kept
KeptPositionsTail(sifted, nn) ==
    SubSeq(sifted, Max(Len(sifted) - 2 * nn, 0) + 1, Len(sifted))

\* line 151: kept_pos = sifted_positions[: 2*n]
KeptPositions(sifted, nn) == Slice(sifted, 2 * nn)

\* lines 152-153: [bits[i] for i in kept_pos]
Kept(bits, kept) == [j \in 1..Len(kept) |-> bits[kept[j]]]

\* variant: k elements drawn with replacement (random.choices)
SamplesWithReplacement(population, k) == [1..k -> Range(population)]

\* what random.sample(population, k) can return for 0 <= k <= len(population):
\* k elements drawn without replacement, in selection order
Samples(population, k) ==
    {s \in [1..k -> Range(population)] :
        \A i, j \in 1..k : i # j => s[i] # s[j]}

\* variant: the key indices are not filtered
KeyIndicesUnfiltered(indices, check) == indices

\* line 158: [i for i in indices if i not in check_indices]
KeyIndices(indices, check) ==
    LET NotChecked(i) == i \notin Range(check)
    IN  SelectSeq(indices, NotChecked)

AbortSifting(siftedLen) ==
    [status |-> "abort", reason |-> "Not enough sifted bits",
     sifted_len |-> siftedLen]

\* lines 141-158: sifting, truncation to 2n positions, the check/key partition
Sift ==
    /\ pc = "Sifting"
    /\ sifted_positions' = SiftedPositions(total, alice_bases, bob_bases)
    /\ \/ /\ NotEnoughSifted(Len(sifted_positions'), n)
          /\ result' = AbortSifting(Len(sifted_positions'))
          /\ pc' = "Aborted"
          /\ UNCHANGED <<kept_pos, check_indices, key_indices, raised,
                         randomDraws>>
       \/ \* measured_bits[i] on line 153 with i beyond the decoded outcome
          /\ ~NotEnoughSifted(Len(sifted_positions'), n)
          /\ kept_pos' = KeptPositions(sifted_positions', n)
          /\ \E j \in 1..Len(kept_pos') : kept_pos'[j] > Len(measured_bits)
          /\ pc' = "Crashed"
          /\ raised' = "IndexError"
          /\ UNCHANGED <<check_indices, key_indices, result, randomDraws>>
       \/ \* random.sample(indices, n) with n < 0
          /\ ~NotEnoughSifted(Len(sifted_positions'), n)
          /\ kept_pos' = KeptPositions(sifted_positions', n)
          /\ \A j \in 1..Len(kept_pos') : kept_pos'[j] <= Len(measured_bits)
          /\ n < 0
          /\ pc' = "Crashed"
          /\ raised' = "ValueError: sample"
          /\ UNCHANGED <<check_indices, key_indices, result, randomDraws>>
       \/ /\ ~NotEnoughSifted(Len(sifted_positions'), n)
          /\ kept_pos' = KeptPositions(sifted_positions', n)
          /\ \A j \in 1..Len(kept_pos') : kept_pos'[j] <= Len(measured_bits)
          /\ n >= 0
          /\ check_indices' \in Samples(IndexSeq(2 * n), n)
          /\ key_indices' = KeyIndices(IndexSeq(2 * n), check_indices')
          /\ randomDraws' = randomDraws + n
          /\ pc' = "CheckingQBER"
          /\ UNCHANGED <<result, raised>>
    /\ UNCHANGED <<analysis, proc, n, delta, tolerance, avgErrors, isEvePresent, total,
                   data_bits, alice_bases, bob_bases, eve_bases, qc, counts,
                   measured_bits, simCalls>>

\* variant: mismatches are counted on every retained position
CheckMismatchesAll(alice_kept, bob_kept, check) ==
    Cardinality({j \in 1..Len(alice_kept) : alice_kept[j] # bob_kept[j]})

\* lines 161-164: the check positions where Alice's and Bob's bits differ
CheckMismatches(alice_kept, bob_kept, check) ==
    Cardinality({j \in 1..Len(check) :
                    alice_kept[check[j]] # bob_kept[check[j]]})

\* line 165: qber = check_mismatches / float(n), as a fraction
Qber(m, nn) == <<m, nn>>

\* variant: the test of line 167 written with >=
ExceedsToleranceInclusive(q, tol) == q[1] * tol[2] >= tol[1] * q[2]

\* line 167: qber > tolerance, both fractions with a positive denominator
ExceedsTolerance(q, tol) == q[1] * tol[2] > tol[1] * q[2]

\* lines 177-178: [kept[i] for i in key_indices]
RawKey(kept, key) == [j \in 1..Len(key) |-> kept[key[j]]]

\* line 179
RealErrorCount(raw_key_alice, raw_key_bob) ==
    Cardinality({i \in 1..Len(raw_key_alice) : raw_key_alice[i] # raw_key_bob[i]})

\* variant: Bob's raw key is returned
SharedKeyBob(raw_key_alice, raw_key_bob) == raw_key_bob

\* line 183: shared_key = raw_key_alice
SharedKey(raw_key_alice, raw_key_bob) == raw_key_alice

AbortQber(q, m, nn) ==
    [status |-> "abort", reason |-> "QBER too high on check bits",
     qber |-> q, check_mismatches |-> m, n |-> nn]

Success(q, siftedLen, tot, key, errors) ==
    [status |-> "success", qber |-> q, sifted_len |-> siftedLen,
     total_qubits |-> tot, shared_key_bits |-> key,
     real_error_ratio |-> <<errors, Len(key)>>]

\* lines 160-192: what run_bb84 returns once the partition is drawn, as a
\* function of the call's arguments, its draws and the decoded outcome
Verdict(nn, tol, tot, data, measured, sifted, kept, check, key) ==
    LET alice_kept == Kept(data, kept)
        bob_kept == Kept(measured, kept)
        check_mismatches == CheckMismatches(alice_kept, bob_kept, check)
        qber == Qber(check_mismatches, nn)
        raw_key_alice == RawKey(alice_kept, key)
        raw_key_bob == RawKey(bob_kept, key)
    IN  IF ExceedsTolerance(qber, tol)
        THEN AbortQber(qber, check_mismatches, nn)
        ELSE Success(qber, Len(sifted), tot,
                     SharedKey(raw_key_alice, raw_key_bob),
                     RealErrorCount(raw_key_alice, raw_key_bob))

\* lines 160-192: the QBER on the check bits, then the abort or the key
CheckQBER ==
    /\ pc = "CheckingQBER"
    /\ result' = Verdict(n, tolerance, total, data_bits, measured_bits,
                         sifted_positions, kept_pos, check_indices, key_indices)
    /\ pc' = IF result'.status = "success" THEN "Accepted" ELSE "Aborted"
    /\ UNCHANGED <<analysis, proc, n, delta, tolerance, avgErrors, isEvePresent, total,
                   data_bits, alice_bases, bob_bases, eve_bases, qc, counts,
                   measured_bits, sifted_positions, kept_pos, check_indices,
                   key_indices, raised, randomDraws, simCalls>>

Next == Prepare \/ Perturb \/ Measure \/ Sift \/ CheckQBER

Spec == Init /\ [][Next]_vars

(***************************************************************************)
(* The end-to-end scenario n = 16, delta = 0.2, tolerance = 0.11, no       *)
(* noise, no Eve.  Its ensemble has 68 positions, so the random draws are  *)
(* taken from families small enough to enumerate: bit strings that repeat  *)
(* with period ScenarioPeriod, Bob's bases differing from Alice's on a     *)
(* prefix of any length, and check samples that take every other retained  *)
(* index or one half of them.  Every draw of these families is one the code can *)
(* make.  The steps are those of Prepare, Measure and Sift.                *)
(***************************************************************************)
ScenarioPeriod == 2

Scenario ==
    [n |-> 16, delta |-> 2, tolerance |-> <<11, 100>>, avgErrors |-> 0,
     isEvePresent |-> FALSE]

\* w repeated up to length L
Periodic(L, w) == [i \in 1..L |-> w[((i - 1) % Len(w)) + 1]]

PeriodicSeqs(L) == {Periodic(L, w) : w \in BitSeqs(ScenarioPeriod)}

\* bases that differ from abases exactly on the first k positions
FlippedPrefix(abases, k) ==
    [i \in 1..Len(abases) |-> IF i <= k THEN 1 - abases[i] ELSE abases[i]]

\* the elements of a finite set of integers in increasing order
RECURSIVE Ascending(_)
Ascending(S) ==
    IF S = {} THEN <<>>
    ELSE LET least == CHOOSE x \in S : \A y \in S : x <= y
         IN  <<least>> \o Ascending(S \ {least})

\* values random.sample(range(2k), k) can return: every other index, or
\* one half of the indices
StripedSamples(k) ==
    {Ascending({i \in 1..(2 * k) : ((i - 1) \div b) % 2 = r}) :
        b \in {1, k}, r \in {0, 1}}

\* one-shot outcomes of circ: a qubit in |0> or |1> gives its value, the
\* others give the bits of a periodic string
ScenarioShots(circ, L) ==
    {[q \in 1..L |-> IF values[q] = {0} THEN 0
                     ELSE IF values[q] = {1} THEN 1 ELSE w[q]] :
        values \in {[q \in 1..L |-> MeasureZ(QubitState(circ, q))]},
        w \in PeriodicSeqs(L)}

ScenarioCounts(circ, L) ==
    {{CountsKey(f)} : f \in ScenarioShots(circ, L)}
    \cup {{}, {MalformedKey}, {<<>>}}

ScenarioInit ==
    /\ n = Scenario.n
    /\ delta = Scenario.delta
    /\ tolerance = Scenario.tolerance
    /\ avgErrors = Scenario.avgErrors
    /\ isEvePresent = Scenario.isEvePresent
    /\ total = 0
    /\ data_bits = <<>>
    /\ alice_bases = <<>>
    /\ bob_bases = <<>>
    /\ eve_bases = <<>>
    /\ qc = <<>>
    /\ counts = {}
    /\ measured_bits = <<>>
    /\ sifted_positions = <<>>
    /\ kept_pos = <<>>
    /\ check_indices = <<>>
    /\ key_indices = <<>>
    /\ result = NoResult
    /\ pc = "Preparing"
    /\ raised = "none"
    /\ randomDraws = 0
    /\ simCalls = 0
    /\ proc = DirectCall
    /\ analysis = NoAnalysis

\* lines 109-119 with the draws of the scenario
ScenarioPrepare ==
    /\ pc = "Preparing"
    /\ total' = Total(n, delta)
    /\ data_bits' \in PeriodicSeqs(RangeLen(total'))
    /\ alice_bases' \in PeriodicSeqs(RangeLen(total'))
    /\ \E k \in 0..RangeLen(total') :
          bob_bases' = FlippedPrefix(alice_bases', k)
    /\ IF isEvePresent
       THEN eve_bases' \in PeriodicSeqs(RangeLen(total'))
       ELSE eve_bases' = <<>>
    /\ randomDraws' = randomDraws
                      + (IF isEvePresent THEN 4 ELSE 3) * RangeLen(total')
    /\ qc' = prepare_alice_circuit(data_bits', alice_bases')
    /\ pc' = "Perturbing"
    /\ UNCHANGED <<analysis, proc, n, delta, tolerance, avgErrors, isEvePresent, counts,
                   measured_bits, sifted_positions, kept_pos, check_indices,
                   key_indices, result, raised, simCalls>>

\* lines 123-139 with the outcomes of the scenario
ScenarioMeasure ==
    /\ pc = "Measuring"
    /\ qc' = measure_bob_in_bases(qc, bob_bases)
    /\ simCalls' = simCalls + 1
    /\ counts' \in ScenarioCounts(qc', RangeLen(total))
    /\ \/ /\ counts' = {}
          /\ pc' = "Crashed"
          /\ raised' = "StopIteration"
          /\ UNCHANGED measured_bits
       \/ /\ \E measured_str \in counts' :
                \E i \in 1..Len(measured_str) : measured_str[i] \notin {"0", "1"}
          /\ pc' = "Crashed"
          /\ raised' = "ValueError: int"
          /\ UNCHANGED measured_bits
       \/ /\ \E measured_str \in counts' :
                /\ \A i \in 1..Len(measured_str) : measured_str[i] \in {"0", "1"}
                /\ measured_bits' = Decode(measured_str)
          /\ pc' = "Sifting"
          /\ UNCHANGED raised
    /\ UNCHANGED <<analysis, proc, n, delta, tolerance, avgErrors, isEvePresent, total,
                   data_bits, alice_bases, bob_bases, eve_bases,
                   sifted_positions, kept_pos, check_indices, key_indices,
                   result, randomDraws>>

\* lines 141-158 with the check samples of the scenario
ScenarioSift ==
    /\ pc = "Sifting"
    /\ sifted_positions' = SiftedPositions(total, alice_bases, bob_bases)
    /\ \/ /\ NotEnoughSifted(Len(sifted_positions'), n)
          /\ result' = AbortSifting(Len(sifted_positions'))
          /\ pc' = "Aborted"
          /\ UNCHANGED <<kept_pos, check_indices, key_indices, raised,
                         randomDraws>>
       \/ /\ ~NotEnoughSifted(Len(sifted_positions'), n)
          /\ kept_pos' = KeptPositions(sifted_positions', n)
          /\ \E j \in 1..Len(kept_pos') : kept_pos'[j] > Len(measured_bits)
          /\ pc' = "Crashed"
          /\ raised' = "IndexError"
          /\ UNCHANGED <<check_indices, key_indices, result, randomDraws>>
       \/ /\ ~NotEnoughSifted(Len(sifted_positions'), n)
          /\ kept_pos' = KeptPositions(sifted_positions', n)
          /\ \A j \in 1..Len(kept_pos') : kept_pos'[j] <= Len(measured_bits)
          /\ check_indices' \in StripedSamples(n)
          /\ key_indices' = KeyIndices(IndexSeq(2 * n), check_indices')
          /\ randomDraws' = randomDraws + n
          /\ pc' = "CheckingQBER"
          /\ UNCHANGED <<result, raised>>
    /\ UNCHANGED <<analysis, proc, n, delta, tolerance, avgErrors, isEvePresent, total,
                   data_bits, alice_bases, bob_bases, eve_bases, qc, counts,
                   measured_bits, simCalls>>

ScenarioNext ==
    ScenarioPrepare \/ Perturb \/ ScenarioMeasure \/ ScenarioSift \/ CheckQBER

ScenarioSpec == ScenarioInit /\ [][ScenarioNext]_vars

(***************************************************************************)
(* The run as a child process: run_bb84_json (src/src/run_batch.py) builds *)
(* a command line and spawns python3 src/bb84.py, whose __main__ parses    *)
(* the command line, calls run_bb84 and prints; run_bb84_json then parses  *)
(* the child's stdout.  A child started from a shell with the options      *)
(* __main__ declares is explored as well.  The values of the options are   *)
(* the variables n, delta, tolerance, avgErrors and isEvePresent: str()    *)
(* followed by argparse's int() or float() gives the value back, except    *)
(* that int() refuses the text of a float.                                 *)
(***************************************************************************)
\* lines 197-203 of bb84.py (argparse adds --help)
KnownFlags ==
    {"--n", "--delta", "--tolerance", "--backend", "--errors", "--eve", "--help"}

\* lines 24-37 of run_batch.py: the options of cmd
BatchFlags(bobperfect, eve) ==
    {"--n", "--delta", "--tolerance", "--errors", "--backend", "--json"}
    \cup (IF bobperfect THEN {"--bobperfect"} ELSE {})
    \cup (IF eve THEN {"--eve"} ELSE {})

\* a command line typed with the options __main__ declares
ShellFlags(eve) ==
    {"--n", "--delta", "--tolerance", "--errors", "--backend"}
    \cup (IF eve THEN {"--eve"} ELSE {})

\* lines 211-221 of bb84.py: what the child prints for res, as the fixed
\* parts of its lines
TextReport(res) ==
    [format |-> "text",
     lines |-> IF res.status = "success"
               THEN <<"BB84 run successful", "Total qubits sent: ",
                      "Sifted bits available: ", "QBER on checked bits: ",
                      "Actual error ratio on shared key: ", "Shared key (">>
               ELSE <<"BB84 aborted: ">>]

\* json.loads(output): only a JSON document is decoded
JsonLoads(out) ==
    IF out.format = "json"
    THEN [ok |-> TRUE, data |-> out.data]
    ELSE [ok |-> FALSE, data |-> NoResult]

\* lines 39-52 of run_batch.py: what run_bb84_json returns for the child's stdout
ParsedOutput(out) ==
    IF out = NoOutput
    THEN [status |-> "error", reason |-> "No output"]
    ELSE IF JsonLoads(out).ok
         THEN JsonLoads(out).data
         ELSE [status |-> "error", reason |-> "JSON parse error"]

BatchInit ==
    /\ n \in (-1)..1
    /\ delta \in DeltaValues
    /\ tolerance \in ToleranceValues
    /\ avgErrors \in AvgErrorsValues
    /\ isEvePresent \in BOOLEAN
    /\ proc \in {Process("run_batch", "submitting", {}, "int", -1,
                         NoOutput, NoResult),
                 Process("shell", "spawned", ShellFlags(isEvePresent), "int",
                         -1, NoOutput, NoResult)}
    /\ total = 0
    /\ data_bits = <<>>
    /\ alice_bases = <<>>
    /\ bob_bases = <<>>
    /\ eve_bases = <<>>
    /\ qc = <<>>
    /\ counts = {}
    /\ measured_bits = <<>>
    /\ sifted_positions = <<>>
    /\ kept_pos = <<>>
    /\ check_indices = <<>>
    /\ key_indices = <<>>
    /\ result = NoResult
    /\ pc = "NotStarted"
    /\ raised = "none"
    /\ randomDraws = 0
    /\ simCalls = 0
    /\ analysis = NoAnalysis

\* lines 24-40 of run_batch.py: the command line is built and the child spawned
Submit ==
    /\ proc.phase = "submitting"
    /\ \E bobperfect \in BOOLEAN, errorsText \in {"int", "float"} :
          proc' = [proc EXCEPT !.phase = "spawned",
                               !.flags = BatchFlags(bobperfect, isEvePresent),
                               !.errorsText = errorsText]
    /\ UNCHANGED <<analysis, n, delta, tolerance, avgErrors, isEvePresent, total,
                   data_bits, alice_bases, bob_bases, eve_bases, qc, counts,
                   measured_bits, sifted_positions, kept_pos, check_indices,
                   key_indices, result, pc, raised, randomDraws, simCalls>>

\* lines 194-210 of bb84.py: parse_args() accepts the command line and
\* run_bb84 is called, or it writes a usage error to stderr and exits with 2
ParseArgs ==
    /\ proc.phase = "spawned"
    /\ IF proc.flags \subseteq KnownFlags /\ proc.errorsText = "int"
       THEN /\ proc' = [proc EXCEPT !.phase = "running"]
            /\ pc' = "Preparing"
       ELSE /\ proc' = [proc EXCEPT !.phase = "exited", !.code = 2]
            /\ UNCHANGED pc
    /\ UNCHANGED <<analysis, n, delta, tolerance, avgErrors, isEvePresent, total,
                   data_bits, alice_bases, bob_bases, eve_bases, qc, counts,
                   measured_bits, sifted_positions, kept_pos, check_indices,
                   key_indices, result, raised, randomDraws, simCalls>>

\* lines 210-221 of bb84.py: the result is printed and the child exits; an
\* exception of run_bb84 ends it with a traceback on stderr
Report ==
    /\ proc.phase = "running"
    /\ pc \in {"Accepted", "Aborted", "Crashed"}
    /\ proc' = IF pc = "Crashed"
               THEN [proc EXCEPT !.phase = "exited", !.code = 1]
               ELSE [proc EXCEPT !.phase = "exited", !.code = 0,
                                 !.stdout = TextReport(result)]
    /\ UNCHANGED <<analysis, n, delta, tolerance, avgErrors, isEvePresent, total,
                   data_bits, alice_bases, bob_bases, eve_bases, qc, counts,
                   measured_bits, sifted_positions, kept_pos, check_indices,
                   key_indices, result, pc, raised, randomDraws, simCalls>>

\* lines 39-52 of run_batch.py: the child's stdout is parsed and returned
Collect ==
    /\ proc.phase = "exited"
    /\ proc.caller = "run_batch"
    /\ proc' = [proc EXCEPT !.phase = "returned",
                            !.returned = ParsedOutput(proc.stdout)]
    /\ UNCHANGED <<analysis, n, delta, tolerance, avgErrors, isEvePresent, total,
                   data_bits, alice_bases, bob_bases, eve_bases, qc, counts,
                   measured_bits, sifted_positions, kept_pos, check_indices,
                   key_indices, result, pc, raised, randomDraws, simCalls>>

BatchNext ==
    \/ Submit \/ ParseArgs
    \/ Prepare \/ Perturb \/ Measure \/ Sift \/ CheckQBER
    \/ Report \/ Collect

BatchSpec == BatchInit /\ [][BatchNext]_vars

(***************************************************************************)
(* analyze_csv (src/src/analyze_results.py) on the rows of a results file: *)
(* the rows are grouped by error level and, when a plot is asked for, a    *)
(* success rate is computed for each level in increasing order.  A row is  *)
(* kept as the fields the rate depends on; a rate is a fraction.           *)
(***************************************************************************)
MaxRows == 3

\* two of the error levels of run_batch
ErrorLevels == {0, 5}

\* status and reason of the rows run_batch writes
Outcomes ==
    {[status |-> "success", reason |-> ""],
     [status |-> "abort", reason |-> "Not enough sifted bits"],
     [status |-> "abort", reason |-> "QBER too high on check bits"],
     [status |-> "error", reason |-> "No output"]}

Rows ==
    {[errors |-> e, status |-> o.status, reason |-> o.reason] :
        e \in ErrorLevels, o \in Outcomes}

RowSeqs == UNION {[1..k -> Rows] : k \in 0..MaxRows}

\* 'Not enough sifted' in reason
MentionsSifting(reason) == reason = "Not enough sifted bits"

\* lines 68-72: the rows of each error level, in file order
ByErrors(rows) ==
    [e \in {rows[i].errors : i \in 1..Len(rows)} |->
        LET AtLevel(r) == r.errors = e
        IN  SelectSeq(rows, AtLevel)]

\* lines 167-184: the success rate of one error level
SuccessRate(e_rows, qber_only) ==
    LET Succeeded(r) == r.status = "success"
        Valid(r) == \/ r.status = "success"
                    \/ r.status = "abort" /\ MentionsSifting(r.reason)
        e_success == Len(SelectSeq(e_rows, Succeeded))
        valid_runs == Len(SelectSeq(e_rows, Valid))
    IN  IF qber_only
        THEN (IF valid_runs > 0 THEN <<100 * e_success, valid_runs>>
                                ELSE <<0, 1>>)
        ELSE <<100 * e_success, Len(e_rows)>>

runVars == <<n, delta, tolerance, avgErrors, isEvePresent, total, data_bits,
             alice_bases, bob_bases, eve_bases, qc, counts, measured_bits,
             sifted_positions, kept_pos, check_indices, key_indices, result,
             pc, raised, randomDraws, simCalls, proc>>

AnalysisInit ==
    /\ analysis \in
          {[phase |-> "reading", rows |-> rows, show_plot |-> show_plot,
            qber_only |-> qber_only, by_errors |-> <<>>,
            success_rates |-> <<>>] :
              rows \in RowSeqs, show_plot \in BOOLEAN, qber_only \in BOOLEAN}
    /\ n = 0
    /\ delta = 0
    /\ tolerance = <<0, 1>>
    /\ avgErrors = 0
    /\ isEvePresent = FALSE
    /\ total = 0
    /\ data_bits = <<>>
    /\ alice_bases = <<>>
    /\ bob_bases = <<>>
    /\ eve_bases = <<>>
    /\ qc = <<>>
    /\ counts = {}
    /\ measured_bits = <<>>
    /\ sifted_positions = <<>>
    /\ kept_pos = <<>>
    /\ check_indices = <<>>
    /\ key_indices = <<>>
    /\ result = NoResult
    /\ pc = "NotStarted"
    /\ raised = "none"
    /\ randomDraws = 0
    /\ simCalls = 0
    /\ proc = DirectCall

\* lines 29-109: the file is read and its rows are grouped; without rows, or
\* without --plot, analyze_csv is done
ReadRows ==
    /\ analysis.phase = "reading"
    /\ analysis' =
          IF analysis.rows = <<>>
          THEN [analysis EXCEPT !.phase = "done"]
          ELSE [analysis EXCEPT
                   !.phase = IF analysis.show_plot THEN "plotting" ELSE "done",
                   !.by_errors = ByErrors(analysis.rows)]
    /\ UNCHANGED runVars

\* lines 164-184: one turn of the loop over sorted(by_errors.keys())
PlotRate ==
    /\ analysis.phase = "plotting"
    /\ LET error_levels == Ascending(DOMAIN analysis.by_errors)
           k == Len(analysis.success_rates) + 1
           rates == Append(analysis.success_rates,
                           SuccessRate(analysis.by_errors[error_levels[k]],
                                       analysis.qber_only))
       IN  analysis' =
              [analysis EXCEPT
                  !.success_rates = rates,
                  !.phase = IF k = Len(error_levels) THEN "plotted"
                                                     ELSE "plotting"]
    /\ UNCHANGED runVars

AnalysisNext == ReadRows \/ PlotRate

AnalysisSpec == AnalysisInit /\ [][AnalysisNext]_vars

(***************************************************************************)
(* Vocabulary of the properties.                                           *)
(***************************************************************************)
\* the positions where Alice's and Bob's bases agree
Matching == {i \in 1..Len(alice_bases) : alice_bases[i] = bob_bases[i]}

\* the run went through the sifting test of line 143
ReachedSifting ==
    \/ pc \in {"CheckingQBER", "Accepted", "Aborted"}
    \/ pc = "Crashed" /\ raised \in {"IndexError", "ValueError: sample"}

IsSiftingAbort ==
    pc = "Aborted" /\ result.reason = "Not enough sifted bits"

IsQberAbort ==
    pc = "Aborted" /\ result.reason = "QBER too high on check bits"

\* the run passed the sifting test and drew its partition
PassedSifting == pc \in {"CheckingQBER", "Accepted"} \/ IsQberAbort

\* the run returned from the QBER test
VerdictGiven == pc = "Accepted" \/ IsQberAbort

\* the ensemble positions behind a sequence of indices into kept_pos
PositionsOf(idx) == {kept_pos[idx[j]] : j \in 1..Len(idx)}

\* the k-th smallest element of a finite set of integers
Smallest(S, k) == CHOOSE x \in S : Cardinality({y \in S : y < x}) = k - 1

\* the check positions where Alice's data bit and Bob's measured bit differ
CheckErrors ==
    {p \in PositionsOf(check_indices) : data_bits[p] # measured_bits[p]}

\* the place of each source of operations in the order of lines 119-123
Rank(by) ==
    CASE by = "Alice" -> 1
      [] by = "Eve" -> 2
      [] by = "BitFlips" -> 3
      [] by = "PhaseFlips" -> 4
      [] by = "Bob" -> 5

\* the gates each source may apply
GatesOf(by) ==
    CASE by = "Alice" -> {"x", "h"}
      [] by = "Eve" -> {"h", "x", "z", "barrier"}
      [] by = "BitFlips" -> {"x", "barrier"}
      [] by = "PhaseFlips" -> {"z", "barrier"}
      [] by = "Bob" -> {"h", "measure", "barrier"}

\* the sources of the operations applied to qubit q
SourcesOn(q) == {qc[k].by : k \in {j \in 1..Len(qc) : qc[j].q = q}}

\* a parameter the spec calls invalid: n <= 0 or tolerance outside [0, 1]
InvalidParameters ==
    n <= 0 \/ tolerance[1] < 0 \/ tolerance[1] > tolerance[2]

\* the steps of the state machine of a run, as pairs of phases
LifecycleSteps ==
    {<<"Preparing", "Perturbing">>, <<"Perturbing", "Measuring">>,
     <<"Measuring", "Sifting">>, <<"Sifting", "CheckingQBER">>,
     <<"Sifting", "Aborted">>, <<"CheckingQBER", "Accepted">>,
     <<"CheckingQBER", "Aborted">>}

\* the arguments of the end-to-end scenario
ScenarioArguments ==
    /\ n = 16
    /\ delta = 2
    /\ tolerance = <<11, 100>>
    /\ avgErrors = 0
    /\ ~isEvePresent

\* position i received a flip of the given kind ("BitFlips" or "PhaseFlips")
Flipped(kind, i) ==
    \E k \in 1..Len(qc) :
        qc[k].by = kind /\ qc[k].q = i /\ qc[k].g # "barrier"

(***************************************************************************)
(* C1: a run that reaches sifting returns the insufficient-sifting abort,  *)
(* carrying the observed sifted count, if and only if fewer than 2n        *)
(* positions have matching bases; that abort leaves no retained positions, *)
(* no partition, no QBER and no key; with 2n or more matching positions    *)
(* the run retains positions and, unless it raises, goes on to the QBER    *)
(* check.                                                                  *)
(***************************************************************************)
C1_SiftingAbortIff ==
    ReachedSifting =>
        /\ IsSiftingAbort <=> Cardinality(Matching) < 2 * n
        /\ IsSiftingAbort =>
              /\ result = [status |-> "abort",
                           reason |-> "Not enough sifted bits",
                           sifted_len |-> Cardinality(Matching)]
              /\ kept_pos = <<>>
              /\ check_indices = <<>>
              /\ key_indices = <<>>
        /\ Cardinality(Matching) >= 2 * n =>
              /\ Len(kept_pos) = RangeLen(2 * n)
              /\ raised = "none" => PassedSifting

\* an abort with exactly one matching position fewer than 2n, for n = 2
C1_Witness ==
    /\ n = 2
    /\ IsSiftingAbort
    /\ result.sifted_len = 2 * n - 1

(***************************************************************************)
(* C2: in every run that passes the sifting check, the check indices and   *)
(* the key indices are disjoint, each set has exactly n elements, and the  *)
(* positions behind them are together exactly the 2n retained positions.   *)
(***************************************************************************)
C2_Partition ==
    PassedSifting =>
        /\ Len(check_indices) = n
        /\ Len(key_indices) = n
        /\ Cardinality(Range(check_indices)) = n
        /\ Cardinality(Range(key_indices)) = n
        /\ Range(check_indices) \cap Range(key_indices) = {}
        /\ Range(check_indices) \cup Range(key_indices) = 1..(2 * n)
        /\ Len(kept_pos) = 2 * n
        /\ Cardinality(Range(kept_pos)) = 2 * n
        /\ PositionsOf(check_indices) \cap PositionsOf(key_indices) = {}
        /\ Cardinality(PositionsOf(check_indices)) = n
        /\ Cardinality(PositionsOf(key_indices)) = n
        /\ PositionsOf(check_indices) \cup PositionsOf(key_indices)
              = Range(kept_pos)

\* a run aborted for QBER whose partition has two check and two key indices
C2_Witness == n = 2 /\ IsQberAbort

(***************************************************************************)
(* C3: a returned result with status success holds shared_key_bits of      *)
(* length exactly n; a returned result with status abort, for either       *)
(* reason, has no shared_key_bits field.                                   *)
(***************************************************************************)
C3_KeyField ==
    result # NoResult =>
        /\ result.status \in {"success", "abort"}
        /\ result.status = "success" =>
              /\ "shared_key_bits" \in DOMAIN result
              /\ Len(result.shared_key_bits) = n
        /\ result.status = "abort" => "shared_key_bits" \notin DOMAIN result

\* an accepted run with a two-bit key
C3_Witness == n = 2 /\ pc = "Accepted" /\ result.status = "success"

(***************************************************************************)
(* C4: once the QBER test has returned, qber is m/n with m the number of   *)
(* check positions where Alice's data bit differs from Bob's measured bit; *)
(* the run is aborted for QBER, reporting qber, m and n, if and only if    *)
(* m/n > tolerance, so a run with m/n = tolerance is accepted.             *)
(***************************************************************************)
C4_QberVerdict ==
    VerdictGiven =>
        LET m == Cardinality(CheckErrors)
        IN  /\ result.qber[2] > 0
            /\ result.qber[1] * n = m * result.qber[2]
            /\ IsQberAbort <=> m * tolerance[2] > tolerance[1] * n
            /\ IsQberAbort =>
                  /\ result.status = "abort"
                  /\ result.check_mismatches = m
                  /\ result.n = n
            /\ m * tolerance[2] = tolerance[1] * n => result.status = "success"

\* an accepted run whose QBER equals a non-zero tolerance
C4_Witness ==
    /\ pc = "Accepted"
    /\ Cardinality(CheckErrors) > 0
    /\ Cardinality(CheckErrors) * tolerance[2] = tolerance[1] * n

(***************************************************************************)
(* C5: on an accepted run shared_key_bits is the sequence of Alice's data  *)
(* bits at the retained positions that are not check positions, taken in   *)
(* increasing position order; Bob's measured bits do not enter it.         *)
(***************************************************************************)
C5_KeyIsAlice ==
    pc = "Accepted" =>
        LET keyPos == Range(kept_pos) \ PositionsOf(check_indices)
        IN  /\ Len(result.shared_key_bits) = Cardinality(keyPos)
            /\ \A j \in 1..Cardinality(keyPos) :
                  result.shared_key_bits[j] = data_bits[Smallest(keyPos, j)]

\* an accepted two-bit key with two different bits, one of which Bob measured wrong
C5_Witness ==
    /\ pc = "Accepted"
    /\ n = 2
    /\ result.shared_key_bits[1] # result.shared_key_bits[2]
    /\ \E p \in PositionsOf(key_indices) : data_bits[p] # measured_bits[p]

(***************************************************************************)
(* C6: the verdict does not depend on Bob's bits at key positions: for the *)
(* same arguments and draws, any outcome that differs from the measured    *)
(* one only at key positions yields the same status, the same qber and the *)
(* same other fields, real_error_ratio excepted.                           *)
(***************************************************************************)
C6_KeyBitsDoNotDecide ==
    VerdictGiven =>
        \A other \in BitSeqs(Len(measured_bits)) :
            (\A i \in 1..Len(other) :
                other[i] # measured_bits[i] => i \in PositionsOf(key_indices))
            => LET r == Verdict(n, tolerance, total, data_bits, other,
                                sifted_positions, kept_pos, check_indices,
                                key_indices)
               IN  /\ r.status = result.status
                   /\ r.qber = result.qber
                   /\ DOMAIN r = DOMAIN result
                   /\ \A f \in DOMAIN r \ {"real_error_ratio"} : r[f] = result[f]

\* an accepted run in which Bob measured every key bit wrong
C6_Witness ==
    /\ pc = "Accepted"
    /\ result.real_error_ratio[1] = result.real_error_ratio[2]

(***************************************************************************)
(* C7: whenever at least 2n positions survive sifting, the retained        *)
(* positions are the 2n smallest matching positions in increasing order,   *)
(* and the check and key indices point only into them.                     *)
(***************************************************************************)
C7_FirstTwoN ==
    (ReachedSifting /\ Cardinality(Matching) >= 2 * n) =>
        /\ Len(kept_pos) = RangeLen(2 * n)
        /\ \A j \in 1..Len(kept_pos) : kept_pos[j] = Smallest(Matching, j)
        /\ Range(check_indices) \cup Range(key_indices) \subseteq 1..Len(kept_pos)

\* an accepted run in which a matching position was left out
C7_Witness ==
    /\ pc = "Accepted"
    /\ Cardinality(Matching) > 2 * n

(***************************************************************************)
(* C8: a call with an invalid parameter (n <= 0, or tolerance outside      *)
(* [0,1]) is rejected before any random value is drawn and before any      *)
(* simulator call is made.                                                 *)
(***************************************************************************)
C8_RejectedEarly ==
    InvalidParameters =>
        /\ randomDraws = 0
        /\ simCalls = 0
        /\ result = NoResult

(***************************************************************************)
(* C9: when the backend returns no usable outcome, the run ends in an      *)
(* ordinary outcome distinct from both protocol aborts: it neither raises  *)
(* nor returns status abort.                                               *)
(***************************************************************************)
C9_BackendFailureSurfaced ==
    (simCalls > 0 /\ ~Usable(counts, total)) =>
        /\ pc # "Crashed"
        /\ result.status # "abort"

(***************************************************************************)
(* C10: the operations of the circuit come in the order Alice's            *)
(* preparation, Eve's interference (only when Eve is present), bit-flips,  *)
(* phase-flips, Bob's rotation and measurement, hence in that order on     *)
(* every qubit; Bob's measurement is the last operation of its qubit.      *)
(***************************************************************************)
C10_OperationOrder ==
    /\ \A k \in 1..Len(qc) :
          /\ qc[k].g \in GatesOf(qc[k].by)
          /\ qc[k].by = "Eve" => isEvePresent
          /\ k < Len(qc) => Rank(qc[k].by) <= Rank(qc[k + 1].by)
          /\ qc[k].g = "measure" =>
                \A j \in (k + 1)..Len(qc) : qc[j].q # qc[k].q
    /\ pc \in {"Sifting", "CheckingQBER", "Accepted", "Aborted"} =>
          \A q \in 1..RangeLen(total) :
              \E k \in 1..Len(qc) : qc[k].q = q /\ qc[k].g = "measure"

\* a measured qubit that every source has operated on
C10_Witness ==
    /\ pc = "Sifting"
    /\ \E q \in 1..RangeLen(total) :
          SourcesOn(q) = {"Alice", "Eve", "BitFlips", "PhaseFlips", "Bob"}

(***************************************************************************)
(* C11: every step of a run with valid parameters follows Preparing ->     *)
(* Perturbing -> Measuring -> Sifting -> CheckingQBER and ends the run in  *)
(* Accepted or Aborted and nowhere else; Aborted is entered only from the  *)
(* sifting check with fewer than 2n sifted positions or from the QBER      *)
(* check with qber > tolerance; no step is taken from Accepted or Aborted. *)
(***************************************************************************)
C11_Lifecycle ==
    [][~InvalidParameters =>
          /\ pc \notin {"Accepted", "Aborted"}
          /\ <<pc, pc'>> \in LifecycleSteps
          /\ pc' = "Aborted" =>
                \/ pc = "Sifting" /\ Len(sifted_positions') < 2 * n
                \/ /\ pc = "CheckingQBER"
                   /\ result'.qber[1] * tolerance[2] > tolerance[1] * result'.qber[2]
      ]_vars

C13_EveUndisturbed ==
    (isEvePresent /\ avgErrors = 0) =>
        /\ \A k \in 1..Len(qc) :
              (qc[k].by = "Eve" /\ qc[k].g # "barrier") =>
                  eve_bases[qc[k].q] # alice_bases[qc[k].q]
        /\ \A i \in Matching \cap (1..Len(measured_bits)) :
              /\ eve_bases[i] = alice_bases[i] => measured_bits[i] = data_bits[i]
              /\ measured_bits[i] # data_bits[i] => eve_bases[i] # alice_bases[i]

\* a measured run without noise in which Eve guessed one sifted position
\* wrong and Bob's bit is wrong there, and guessed another sifted position
\* right
C13_Witness ==
    /\ isEvePresent /\ avgErrors = 0
    /\ Len(measured_bits) = total
    /\ \E i, j \in Matching :
          /\ eve_bases[i] # alice_bases[i]
          /\ measured_bits[i] # data_bits[i]
          /\ eve_bases[j] = alice_bases[j]
          /\ "Eve" \notin SourcesOn(j)

(***************************************************************************)
(* C14: the result of a run reaches the batch driver as one JSON object:   *)
(* the stdout of a child that completed a protocol run decodes to that     *)
(* run's record, and for every configuration run_batch submits,            *)
(* run_bb84_json returns the record of the child's run, with status        *)
(* success or abort and its fields, unless the run itself raised.          *)
(***************************************************************************)
C14_JsonDelivered ==
    /\ (proc.phase \in {"exited", "returned"} /\ result # NoResult) =>
          /\ JsonLoads(proc.stdout).ok
          /\ JsonLoads(proc.stdout).data = result
    /\ (proc.caller = "run_batch" /\ proc.phase = "returned"
        /\ pc # "Crashed") =>
          /\ proc.returned.status \in {"success", "abort"}
          /\ proc.returned = result

(***************************************************************************)
(* C15: with qber_only set, the success rate computed for an error level   *)
(* is 100 * successes / (successes + QBER aborts) over the rows of that    *)
(* level, and 0 when that denominator is 0: the runs aborted for           *)
(* insufficient sifting are left out.                                      *)
(***************************************************************************)
C15_QberOnlyRate ==
    (analysis.phase \in {"plotting", "plotted"} /\ analysis.qber_only) =>
        \A k \in 1..Len(analysis.success_rates) :
            LET e == Ascending({analysis.rows[i].errors :
                                  i \in 1..Len(analysis.rows)})[k]
                AtLevel == {i \in 1..Len(analysis.rows) :
                               analysis.rows[i].errors = e}
                successes == Cardinality({i \in AtLevel :
                                 analysis.rows[i].status = "success"})
                qberAborts == Cardinality({i \in AtLevel :
                                 /\ analysis.rows[i].status = "abort"
                                 /\ analysis.rows[i].reason
                                       = "QBER too high on check bits"})
                rate == analysis.success_rates[k]
            IN  /\ rate[2] > 0
                /\ IF successes + qberAborts > 0
                   THEN rate[1] * (successes + qberAborts)
                           = 100 * successes * rate[2]
                   ELSE rate[1] = 0

====
